---- MODULE Spec2Model ----
(***************************************************************************)
(* Model of the verification gate (src/verify_gate/gate.py) and of the     *)
(* validated lookup (src/src/python/good/good_example.py).                 *)
(*                                                                         *)
(* Spec         one run of main(): run_dafny, run_semgrep, the verdict.    *)
(* SpecCollect  _collect_dafny_files applied to target lists.              *)
(* SpecCount    the ERROR-counting loop of run_semgrep applied to lists of *)
(*              result records.                                            *)
(* SpecLookup   get_user_by_username applied to candidate identifiers.     *)
(***************************************************************************)
EXTENDS Integers, Sequences, FiniteSets, TLC

VARIABLES
    \* ---- environment of the gate
    files,              \* paths that are regular files
    dirs,               \* paths that are directories
    targets,            \* the target list handed to _collect_dafny_files
    dafnyOnPath,        \* shutil.which("dafny") is not None
    semgrepOnPath,      \* the semgrep binary can be executed
    \* ---- the artifacts directory
    artifactsDir,       \* artifacts/ exists
    dafnyLog,           \* content of artifacts/dafny.log
    semgrepJson,        \* content of artifacts/semgrep.json
    \* ---- main()
    pc,                 \* position of main()
    dafny_ok,
    semgrep_ok,
    semgrep_error_count,
    overall_ok,
    exitCode,           \* process exit status, -1 while running
    out,                \* lines printed to standard output
    err,                \* lines printed to standard error
    started,            \* the checks main() has called, in order
    procs,              \* the subprocesses that ran, with what was captured
    \* ---- _collect_dafny_files applied on its own
    collect_pc,
    collect_out,
    \* ---- the counting loop applied on its own
    count_pc,
    count_results,
    count_out,
    \* ---- get_user_by_username
    lk_pc,
    lk_input,           \* the argument `username`
    lk_users,           \* usernames stored in table users
    lk_username,        \* the local `username` after validation
    lk_cursors,         \* number of cursors created on conn
    lk_queries,         \* executed statements: text and bound parameters
    lk_result           \* the value returned, or the error raised

gateVars == <<dafnyOnPath, semgrepOnPath, artifactsDir, dafnyLog, semgrepJson, pc,
              dafny_ok, semgrep_ok, semgrep_error_count, overall_ok, exitCode, out, err,
              started, procs>>
fsVars == <<files, dirs>>
collectVars == <<targets, collect_pc, collect_out>>
countVars == <<count_pc, count_results, count_out>>
lookupVars == <<lk_pc, lk_input, lk_users, lk_username, lk_cursors, lk_queries, lk_result>>
vars == <<gateVars, fsVars, collectVars, countVars, lookupVars>>

(***************************************************************************)
(* Bounds of the model.                                                    *)
(***************************************************************************)
MaxTargets == 3
MaxResults == 2
MaxRecords == 4
MaxBodyLen == 21

(***************************************************************************)
(* Paths.  A path is the sequence of its components; a component is the    *)
(* rank of its name in the lexicographic order of the names used:          *)
(*   1 a.dfy  2 b.dfy  3 check.dfy  4 dafny  5 notes.txt  6 old.dfy        *)
(*   7 specs                                                               *)
(***************************************************************************)
DfyNames == {1, 2, 3, 6}

P_check == <<3>>
P_specs == <<7>>
P_dafny == <<7, 4>>
P_a == <<7, 4, 1>>
P_b == <<7, 4, 2>>
P_notes == <<7, 4, 5>>
P_old == <<7, 4, 6>>
P_old_a == <<7, 4, 6, 1>>

DAFNY_TARGETS == <<P_check, P_dafny>>

CandFiles == {P_check, P_a, P_b, P_notes, P_old_a}
CandDirs == {P_specs, P_dafny, P_old}
CandTargets == {P_check, P_specs, P_dafny, P_a, P_notes, P_old}

Parent(p) == SubSeq(p, 1, Len(p) - 1)

IsPrefix(p, q) == Len(p) < Len(q) /\ SubSeq(q, 1, Len(p)) = p

\* A file system: every entry below the root lies in a directory.
WellFormedFS(fs, ds) ==
    \A p \in fs \cup ds : Len(p) > 1 => Parent(p) \in ds

\* Path.suffix == ".dfy"
HasDfySuffix(p) == Len(p) > 0 /\ p[Len(p)] \in DfyNames

\* Order of pathlib paths: component by component.
RECURSIVE PathLess(_, _)
PathLess(p, q) ==
    IF p = <<>> THEN q # <<>>
    ELSE IF q = <<>> THEN FALSE
    ELSE IF p[1] # q[1] THEN p[1] < q[1]
    ELSE PathLess(Tail(p), Tail(q))

\* sorted(S)
RECURSIVE Sorted(_)
Sorted(S) ==
    IF S = {} THEN <<>>
    ELSE LET m == CHOOSE x \in S : \A y \in S \ {x} : PathLess(x, y)
         IN <<m>> \o Sorted(S \ {m})

\* p.rglob("*.dfy"): every entry below p whose name matches, of either kind.
Rglob(p) == {q \in files \cup dirs : IsPrefix(p, q) /\ HasDfySuffix(q)}

\* One iteration of the loop over targets (lines 24-28).
Resolve(t) ==
    IF t \in files /\ HasDfySuffix(t) THEN <<t>>
    ELSE IF t \in dirs THEN Sorted(Rglob(t))
    ELSE <<>>

RECURSIVE ResolveAll(_)
ResolveAll(ts) ==
    IF ts = <<>> THEN <<>> ELSE Resolve(Head(ts)) \o ResolveAll(Tail(ts))

Range(s) == {s[i] : i \in 1..Len(s)}

\* Deduplicate while preserving order (lines 30-35).
RECURSIVE DedupFrom(_, _, _)
DedupFrom(fs, seen, acc) ==
    IF fs = <<>> THEN acc
    ELSE IF Head(fs) \notin seen
         THEN DedupFrom(Tail(fs), seen \cup {Head(fs)}, Append(acc, Head(fs)))
         ELSE DedupFrom(Tail(fs), seen, acc)

DedupKeepAll(fs) == fs
Dedup(fs) == DedupFrom(fs, {}, <<>>)

collect_dafny_files(ts) == Dedup(ResolveAll(ts))

(***************************************************************************)
(* Text.  A severity is a sequence of characters; the other texts of the   *)
(* gate are only compared and are kept as strings.                         *)
(***************************************************************************)
LowerLetters == <<"a", "b", "c", "d", "e", "f", "g", "h", "i", "j", "k", "l", "m",
                  "n", "o", "p", "q", "r", "s", "t", "u", "v", "w", "x", "y", "z">>
UpperLetters == <<"A", "B", "C", "D", "E", "F", "G", "H", "I", "J", "K", "L", "M",
                  "N", "O", "P", "Q", "R", "S", "T", "U", "V", "W", "X", "Y", "Z">>
Digits == <<"0", "1", "2", "3", "4", "5", "6", "7", "8", "9">>

UpperChar(c) ==
    IF c \in Range(LowerLetters)
    THEN UpperLetters[CHOOSE i \in 1..Len(LowerLetters) : LowerLetters[i] = c]
    ELSE c

\* str.upper()
Upper(s) == [i \in 1..Len(s) |-> UpperChar(s[i])]

ERROR == <<"E", "R", "R", "O", "R">>

\* str.strip() of a captured stream kept as a string
BlankTexts == {"", " \n"}
StripText(s) == IF s \in BlankTexts THEN "" ELSE s

(***************************************************************************)
(* JSON values, as json.loads builds them: [t |-> type, v |-> payload].    *)
(* A dict is the sequence of its <<key, value>> pairs.                     *)
(***************************************************************************)
JNull == [t |-> "null", v |-> 0]
JBool(b) == [t |-> "bool", v |-> b]
JNum(n) == [t |-> "num", v |-> n]
JStr(s) == [t |-> "str", v |-> s]
JList(s) == [t |-> "list", v |-> s]
JDict(kv) == [t |-> "dict", v |-> kv]

IsDict(x) == x.t = "dict"

\* bool(x)
Truthy(x) ==
    CASE x.t = "null" -> FALSE
      [] x.t = "bool" -> x.v
      [] x.t = "num" -> x.v # 0
      [] x.t \in {"str", "list", "dict"} -> x.v # <<>>

\* d.get(key, default) on a dict d
DictGet(d, key, default) ==
    IF \E i \in 1..Len(d.v) : d.v[i][1] = key
    THEN d.v[CHOOSE i \in 1..Len(d.v) : d.v[i][1] = key][2]
    ELSE default

\* iter(x) succeeds
Iterable(x) == x.t \in {"list", "str", "dict"}

\* list(iter(x)): the items of a list, the characters of a str, the keys of a dict
Iterate(x) ==
    CASE x.t = "list" -> x.v
      [] x.t = "str" -> [i \in 1..Len(x.v) |-> JStr(<<x.v[i]>>)]
      [] x.t = "dict" -> [i \in 1..Len(x.v) |-> JStr(<<x.v[i][1]>>)]

\* str(x) for the scalars
PyStr(x) ==
    CASE x.t = "str" -> x.v
      [] x.t = "null" -> <<"N", "o", "n", "e">>
      [] x.t = "bool" -> IF x.v THEN <<"T", "r", "u", "e">> ELSE <<"F", "a", "l", "s", "e">>
      [] x.t = "num" -> <<Digits[x.v + 1]>>

(***************************************************************************)
(* The loop of run_semgrep over the result records (lines 129-133).        *)
(***************************************************************************)
\* r.get("extra", {}) or {}
ExtraOf(r) ==
    LET e == DictGet(r, "extra", JDict(<<>>))
    IN IF Truthy(e) THEN e ELSE JDict(<<>>)

\* The body of the loop raises AttributeError on r.
RecordRaises(r) == ~IsDict(r) \/ ~IsDict(ExtraOf(r))

SeverityOf(r) == DictGet(ExtraOf(r), "severity", JStr(<<>>))

IsBlockingExact(r) == PyStr(SeverityOf(r)) = ERROR
\* str(sev).upper() == "ERROR"
IsBlocking(r) == Upper(PyStr(SeverityOf(r))) = ERROR

\* the loop from item i on: [raised, error_count]
RECURSIVE CountLoop(_, _, _)
CountLoop(items, i, error_count) ==
    IF i > Len(items) THEN [raised |-> FALSE, error_count |-> error_count]
    ELSE IF RecordRaises(items[i]) THEN [raised |-> TRUE, error_count |-> error_count]
    ELSE CountLoop(items, i + 1, IF IsBlocking(items[i]) THEN error_count + 1 ELSE error_count)

\* lines 128-133 on the parsed document: [raised, total, error_count]
Analyse(data) ==
    IF ~IsDict(data) THEN [raised |-> TRUE, total |-> 0, error_count |-> 0]
    ELSE LET results == DictGet(data, "results", JList(<<>>))
         IN IF ~Iterable(results) THEN [raised |-> TRUE, total |-> 0, error_count |-> 0]
            ELSE LET items == Iterate(results)
                     loop == CountLoop(items, 1, 0)
                 IN [raised |-> loop.raised, total |-> Len(items),
                     error_count |-> loop.error_count]

(***************************************************************************)
(* The scanner's stdout: a sequence of chunks, each a run of whitespace,   *)
(* a JSON document (kept as its value) or text that is no JSON.            *)
(***************************************************************************)
WS == [t |-> "ws", v |-> 0]
Garbage == [t |-> "garbage", v |-> 0]

\* str.strip() of the chunk sequence
RECURSIVE LStrip(_)
LStrip(s) == IF s # <<>> /\ Head(s) = WS THEN LStrip(Tail(s)) ELSE s
RECURSIVE RStrip(_)
RStrip(s) == IF s # <<>> /\ s[Len(s)] = WS THEN RStrip(SubSeq(s, 1, Len(s) - 1)) ELSE s
Strip(s) == LStrip(RStrip(s))

\* json.loads(text) does not raise JSONDecodeError
Decodes(text) == Len(text) = 1 /\ text[1].t \notin {"ws", "garbage"}
json_loads(text) == text[1]

(***************************************************************************)
(* Inputs of a run of the gate.                                            *)
(***************************************************************************)
SeqsUpTo(S, n) == UNION {[1..k -> S] : k \in 0..n}

FileSystems == {fs \in (SUBSET CandFiles) \X (SUBSET CandDirs) : WellFormedFS(fs[1], fs[2])}

\* The file systems a run of the gate is started in: check.dfy and the content
\* of specs/dafny vary.
GateFileSystems == {fs \in FileSystems : fs[1] \subseteq {P_check, P_a, P_b} /\ P_old \notin fs[2]}

SevRecord(sev) ==
    JDict(<< <<"check_id", JStr(<<"r">>)>>,
             <<"extra", JDict(<< <<"message", JStr(<<"m">>)>>, <<"severity", sev>> >>)>> >>)

RecError == SevRecord(JStr(ERROR))
RecErrorLower == SevRecord(JStr(<<"e", "r", "r", "o", "r">>))
RecErrorMixed == SevRecord(JStr(<<"E", "r", "r", "o", "r">>))
RecInfo == SevRecord(JStr(<<"I", "n", "f", "o">>))
RecWarning == SevRecord(JStr(<<"W", "A", "R", "N", "I", "N", "G">>))
RecErrors == SevRecord(JStr(<<"e", "r", "r", "o", "r", "s">>))
RecSevNull == SevRecord(JNull)
RecNoSeverity == JDict(<< <<"extra", JDict(<< <<"message", JStr(<<"m">>)>> >>)>> >>)
RecNoExtra == JDict(<< <<"check_id", JStr(<<"r">>)>> >>)
RecExtraNull == JDict(<< <<"extra", JNull>> >>)
RecExtraStr == JDict(<< <<"extra", JStr(<<"x">>)>> >>)
RecNotDict == JStr(ERROR)

ResultsDoc(rs) == JDict(<< <<"errors", JList(<<>>)>>, <<"results", JList(rs)>> >>)

GateRecords == {RecError, RecWarning, RecNoExtra, RecExtraStr}

\* Documents that are JSON but not of the shape the scanner documents.
ShapeDocs ==
    {JNull, JList(<<>>), JNum(0), JStr(ERROR), JDict(<<>>),
     JDict(<< <<"results", JNull>> >>), JDict(<< <<"results", JStr(<<>>)>> >>),
     JDict(<< <<"results", JStr(ERROR)>> >>), JDict(<< <<"results", JDict(<<>>)>> >>),
     JDict(<< <<"results", JDict(<< <<"a", JNull>> >>)>> >>)}

GateDocs == ShapeDocs \cup {ResultsDoc(rs) : rs \in SeqsUpTo(GateRecords, MaxResults)}

SemgrepStdouts ==
    {<<>>, <<WS>>, <<Garbage>>, <<WS, Garbage, WS>>, <<JDict(<<>>), JDict(<<>>)>>,
     <<WS, ResultsDoc(<<RecError>>), WS>>, <<ResultsDoc(<<>>), WS>>}
    \cup {<<d>> : d \in GateDocs}

SEMGRP_CONFIG == "semgrep/semgrep.yml"

NoCmd == [tool |-> "", args |-> <<>>, files |-> <<>>]
VersionCmd == [tool |-> "dafny", args |-> <<"--version">>, files |-> <<>>]
VerifyCmd(dfy_files) == [tool |-> "dafny", args |-> <<"verify">>, files |-> dfy_files]
SemgrepCmd ==
    [tool |-> "semgrep", args |-> <<"scan", "--config", SEMGRP_CONFIG, "--json">>,
     files |-> <<>>]

\* What a subprocess can return: exit status (negative when killed by a signal),
\* stdout and stderr.
VersionProcs ==
    {[rc |-> 0, stdout |-> "4.4.0", stderr |-> ""],
     [rc |-> 1, stdout |-> "", stderr |-> "dotnet missing"]}
DafnyProcs ==
    {[rc |-> 0, stdout |-> "0 errors", stderr |-> ""],
     [rc |-> 4, stdout |-> "1 error", stderr |-> ""],
     [rc |-> 1, stdout |-> "", stderr |-> "usage"],
     [rc |-> -9, stdout |-> "", stderr |-> ""]}
SemgrepProcs ==
    {[rc |-> x[1], stderr |-> x[2], stdout |-> so] :
        x \in {<<0, "">>, <<0, "notice">>, <<2, "fatal">>, <<1, " \n">>},
        so \in SemgrepStdouts}

Ran(cmd, proc) == [cmd |-> cmd, rc |-> proc.rc, stdout |-> proc.stdout, stderr |-> proc.stderr]

(***************************************************************************)
(* Artifact files.                                                         *)
(***************************************************************************)
LogFile(state, kind, header, cmd, stdout, stderr) ==
    [state |-> state, kind |-> kind, header |-> header, cmd |-> cmd,
     stdout |-> stdout, stderr |-> stderr]
AbsentLog == LogFile("absent", "", "", NoCmd, "", "")
StaleLog == LogFile("stale", "run", "4.3.0", VerifyCmd(<<P_check>>), "0 errors", "")
SkipLog == LogFile("written", "skip note", "", NoCmd, "", "")
GuidanceLog == LogFile("written", "install guidance", "", NoCmd, "", "")

AbsentJson == [state |-> "absent", text |-> <<>>]
StaleJson == [state |-> "stale", text |-> <<ResultsDoc(<<>>)>>]
WrittenJson(text) == [state |-> "written", text |-> text]

(***************************************************************************)
(* Printed lines.                                                          *)
(***************************************************************************)
Line(text) == [text |-> text, args |-> <<>>]
LineWith(text, args) == [text |-> text, args |-> args]

PASS_BANNER == Line("[GATE] PASS")
FAIL_BANNER == Line("[GATE] FAIL")
TRACEBACK == Line("Traceback (most recent call last):")
SKIP_MSG == Line("[GATE] No Dafny files found. Skipping Dafny.")
GUIDANCE_MSG == Line("[GATE] dafny not found on PATH. Install Dafny ...")

\* print(stderr) under `if stderr:`
StderrLines(stderr) == IF stderr # "" THEN <<Line(stderr)>> ELSE <<>>

(***************************************************************************)
(* run_dafny (lines 39-89).  Each branch gives what the call returns and   *)
(* does: [ok, log, out, err, procs].                                       *)
(***************************************************************************)
\* lines 48-51
DafnySkippedProbing ==
    [ok |-> TRUE, log |-> SkipLog, out |-> <<SKIP_MSG>>, err |-> <<>>,
     procs |-> <<Ran(VersionCmd, [rc |-> 0, stdout |-> "4.4.0", stderr |-> ""])>>]
DafnySkipped ==
    [ok |-> TRUE, log |-> SkipLog, out |-> <<SKIP_MSG>>, err |-> <<>>, procs |-> <<>>]

\* lines 54-67
DafnyMissingUnlogged(log) ==
    [ok |-> FALSE, log |-> log, out |-> <<>>, err |-> <<GUIDANCE_MSG>>, procs |-> <<>>]
DafnyMissing(log) ==
    [ok |-> FALSE, log |-> GuidanceLog, out |-> <<>>, err |-> <<GUIDANCE_MSG>>,
     procs |-> <<>>]

\* line 84
DafnyFailed(rc) == rc # 0

\* lines 69-89
DafnyVerified(dfy_files, ver, proc) ==
    LET version == IF StripText(ver.stdout) # "" THEN StripText(ver.stdout)
                   ELSE StripText(ver.stderr)
        cmd == VerifyCmd(dfy_files)
    IN [ok |-> ~DafnyFailed(proc.rc),
        log |-> LogFile("written", "run", version, cmd, proc.stdout, proc.stderr),
        out |-> <<Line("[GATE] Dafny version:"), Line(version)>>
                \o (IF DafnyFailed(proc.rc) THEN <<>> ELSE <<Line("[GATE] Dafny PASS")>>),
        err |-> IF DafnyFailed(proc.rc)
                THEN <<LineWith("[GATE] Dafny FAIL (return code)", <<proc.rc>>)>>
                ELSE <<>>,
        procs |-> <<Ran(VersionCmd, ver), Ran(cmd, proc)>>]

run_dafny(ver, proc) ==
    LET dfy_files == collect_dafny_files(DAFNY_TARGETS)
    IN IF dfy_files = <<>> THEN DafnySkipped
       ELSE IF ~dafnyOnPath THEN DafnyMissing(dafnyLog)
       ELSE DafnyVerified(dfy_files, ver, proc)

(***************************************************************************)
(* run_semgrep (lines 92-142): [raised, ok, error_count, json, out, err,   *)
(* procs]; raised: an exception left the function.                         *)
(***************************************************************************)
\* lines 105-107
SemgrepMissing(json) ==
    [raised |-> FALSE, ok |-> FALSE, error_count |-> 0, json |-> json, out |-> <<>>,
     err |-> <<Line("[GATE] semgrep not found on PATH.")>>, procs |-> <<>>]

\* lines 112-116
SemgrepNoOutputPasses(proc, json) ==
    [raised |-> FALSE, ok |-> TRUE, error_count |-> 0, json |-> json, out |-> <<>>,
     err |-> <<Line("[GATE] Semgrep produced no JSON output.")>>
             \o StderrLines(StripText(proc.stderr)),
     procs |-> <<Ran(SemgrepCmd, proc)>>]
SemgrepNoOutput(proc, json) ==
    [raised |-> FALSE, ok |-> FALSE, error_count |-> 0, json |-> json, out |-> <<>>,
     err |-> <<Line("[GATE] Semgrep produced no JSON output.")>>
             \o StderrLines(StripText(proc.stderr)),
     procs |-> <<Ran(SemgrepCmd, proc)>>]

\* lines 118, 122-126
SemgrepBadJson(proc, stdout) ==
    [raised |-> FALSE, ok |-> FALSE, error_count |-> 0, json |-> WrittenJson(stdout),
     out |-> <<>>,
     err |-> <<Line("[GATE] Semgrep output was not valid JSON.")>>
             \o StderrLines(StripText(proc.stderr)),
     procs |-> <<Ran(SemgrepCmd, proc)>>]

\* lines 118, 121, 128-142
SemgrepParsed(proc, stdout) ==
    LET a == Analyse(json_loads(stdout))
        stderr == StripText(proc.stderr)
    IN IF a.raised
       THEN [raised |-> TRUE, ok |-> FALSE, error_count |-> 0,
             json |-> WrittenJson(stdout), out |-> <<>>, err |-> <<TRACEBACK>>,
             procs |-> <<Ran(SemgrepCmd, proc)>>]
       ELSE [raised |-> FALSE, ok |-> TRUE, error_count |-> a.error_count,
             json |-> WrittenJson(stdout),
             out |-> <<LineWith("[GATE] Semgrep findings: total, ERROR",
                                <<a.total, a.error_count>>)>>,
             err |-> IF proc.rc # 0 /\ stderr # ""
                     THEN <<Line("[GATE] Semgrep stderr:"), Line(stderr)>>
                     ELSE <<>>,
             procs |-> <<Ran(SemgrepCmd, proc)>>]

run_semgrep(proc) ==
    IF ~semgrepOnPath THEN SemgrepMissing(semgrepJson)
    ELSE LET stdout == Strip(proc.stdout)
         IN IF stdout = <<>> THEN SemgrepNoOutput(proc, semgrepJson)
            ELSE IF ~Decodes(stdout) THEN SemgrepBadJson(proc, stdout)
            ELSE SemgrepParsed(proc, stdout)

(***************************************************************************)
(* main (lines 145-165).                                                   *)
(***************************************************************************)
\* lines 150-151
OverallAfterDafny(ok, d_ok) == IF ~d_ok THEN FALSE ELSE ok

\* lines 155-158
OverallAfterSemgrepLenient(ok, s_ok, count) ==
    IF ~s_ok THEN FALSE ELSE IF count > 1 THEN FALSE ELSE ok
OverallAfterSemgrep(ok, s_ok, count) ==
    IF ~s_ok THEN FALSE ELSE IF count > 0 THEN FALSE ELSE ok

\* where main goes after lines 149-151
AfterDafnyShortCircuit(d_ok) == IF d_ok THEN "run_semgrep" ELSE "verdict"
AfterDafny(d_ok) == "run_semgrep"

CollectIdle == targets = <<>> /\ collect_pc = "idle" /\ collect_out = <<>>
CountIdle == count_pc = "idle" /\ count_results = <<>> /\ count_out = 0
LookupIdle ==
    /\ lk_pc = "idle"
    /\ lk_input = [t |-> "none", v |-> <<>>]
    /\ lk_users = {}
    /\ lk_username = <<>>
    /\ lk_cursors = 0
    /\ lk_queries = <<>>
    /\ lk_result = [kind |-> "none", v |-> <<>>]

\* The process at the first statement of main, in some environment.  The
\* artifacts of an earlier run may be lying around.
Init ==
    /\ \E fs \in GateFileSystems : files = fs[1] /\ dirs = fs[2]
    /\ dafnyOnPath \in BOOLEAN
    /\ semgrepOnPath \in BOOLEAN
    /\ \E stale \in BOOLEAN :
          /\ artifactsDir = stale
          /\ dafnyLog = IF stale THEN StaleLog ELSE AbsentLog
          /\ semgrepJson = IF stale THEN StaleJson ELSE AbsentJson
    /\ pc = "run_dafny"
    /\ dafny_ok = FALSE
    /\ semgrep_ok = FALSE
    /\ semgrep_error_count = 0
    /\ overall_ok = TRUE
    /\ exitCode = -1
    /\ out = <<>>
    /\ err = <<>>
    /\ started = <<>>
    /\ procs = <<>>
    /\ CollectIdle /\ CountIdle /\ LookupIdle

\* lines 149-151
CallRunDafny ==
    /\ pc = "run_dafny"
    /\ \E ver \in VersionProcs, proc \in DafnyProcs :
          LET r == run_dafny(ver, proc)
          IN /\ artifactsDir' = TRUE
             /\ dafnyLog' = r.log
             /\ out' = out \o r.out
             /\ err' = err \o r.err
             /\ procs' = procs \o r.procs
             /\ dafny_ok' = r.ok
             /\ overall_ok' = OverallAfterDafny(overall_ok, r.ok)
             /\ pc' = AfterDafny(r.ok)
    /\ started' = Append(started, "run_dafny")
    /\ UNCHANGED <<dafnyOnPath, semgrepOnPath, semgrepJson, semgrep_ok,
                   semgrep_error_count, exitCode>>
    /\ UNCHANGED <<fsVars, collectVars, countVars, lookupVars>>

\* lines 154-158; an exception leaving run_semgrep leaves main: the interpreter
\* prints the traceback and exits with status 1
CallRunSemgrep ==
    /\ pc = "run_semgrep"
    /\ \E proc \in SemgrepProcs :
          LET r == run_semgrep(proc)
          IN /\ artifactsDir' = TRUE
             /\ semgrepJson' = r.json
             /\ out' = out \o r.out
             /\ err' = err \o r.err
             /\ procs' = procs \o r.procs
             /\ IF r.raised
                THEN /\ pc' = "raised"
                     /\ exitCode' = 1
                     /\ UNCHANGED <<semgrep_ok, semgrep_error_count, overall_ok>>
                ELSE /\ pc' = "verdict"
                     /\ semgrep_ok' = r.ok
                     /\ semgrep_error_count' = r.error_count
                     /\ overall_ok' = OverallAfterSemgrep(overall_ok, r.ok, r.error_count)
                     /\ UNCHANGED exitCode
    /\ started' = Append(started, "run_semgrep")
    /\ UNCHANGED <<dafnyOnPath, semgrepOnPath, dafnyLog, dafny_ok>>
    /\ UNCHANGED <<fsVars, collectVars, countVars, lookupVars>>

\* lines 160-165 and SystemExit (line 169)
Verdict ==
    /\ pc = "verdict"
    /\ IF overall_ok
       THEN /\ out' = Append(out, PASS_BANNER)
            /\ exitCode' = 0
            /\ UNCHANGED err
       ELSE /\ err' = Append(err, FAIL_BANNER)
            /\ exitCode' = 1
            /\ UNCHANGED out
    /\ pc' = "done"
    /\ UNCHANGED <<dafnyOnPath, semgrepOnPath, artifactsDir, dafnyLog, semgrepJson,
                   dafny_ok, semgrep_ok, semgrep_error_count, overall_ok, started, procs>>
    /\ UNCHANGED <<fsVars, collectVars, countVars, lookupVars>>

Next == CallRunDafny \/ CallRunSemgrep \/ Verdict

Spec == Init /\ [][Next]_vars

(***************************************************************************)
(* Properties of a run of the gate (under Spec).                           *)
(***************************************************************************)
Occurrences(s, x) == Cardinality({i \in 1..Len(s) : s[i] = x})

DafnyReturned == Len(started) >= 1
SemgrepLeft == Len(started) = 2
Terminated == exitCode # -1

SemgrepRan == \E i \in 1..Len(procs) : procs[i].cmd = SemgrepCmd
SemgrepProc == procs[CHOOSE i \in 1..Len(procs) : procs[i].cmd = SemgrepCmd]
DafnyProcsRun == {i \in 1..Len(procs) : procs[i].cmd.tool = "dafny"}

\* C1: main returns 0 exactly when run_dafny reported success, run_semgrep
\* reported ok and the ERROR count is zero; otherwise it returns 1.
C1_ExitCodeIffAllPass ==
    pc = "done" =>
        /\ exitCode \in {0, 1}
        /\ exitCode = 0 <=> (dafny_ok /\ semgrep_ok /\ semgrep_error_count = 0)

C1_Witness ==
    pc = "done" /\ dafny_ok /\ semgrep_ok /\ semgrep_error_count = 1 /\ exitCode = 1

\* C2: every run that has ended printed exactly one banner, PASS with exit
\* status 0 or FAIL with exit status 1.
C2_EveryRunEndsWithBanner ==
    Terminated =>
        /\ Occurrences(out, PASS_BANNER) + Occurrences(err, FAIL_BANNER) = 1
        /\ exitCode = 0 <=> Occurrences(out, PASS_BANNER) = 1
        /\ exitCode = 1 <=> Occurrences(err, FAIL_BANNER) = 1

\* C3: the scanner check is started exactly once, after the verifier check has
\* returned, whatever the verifier check returned; no check and no tool is run a
\* second time.
C3_FixedOrderNoShortCircuit ==
    /\ started \in {<<>>, <<"run_dafny">>, <<"run_dafny", "run_semgrep">>}
    /\ pc \in {"verdict", "done", "raised"} => started = <<"run_dafny", "run_semgrep">>
    /\ Cardinality({i \in 1..Len(procs) : procs[i].cmd = SemgrepCmd}) <= 1
    /\ Cardinality({i \in 1..Len(procs) : procs[i].cmd.args = <<"verify">>}) <= 1
    /\ \A i, j \in 1..Len(procs) :
          (procs[i].cmd.tool = "dafny" /\ procs[j].cmd = SemgrepCmd) => i < j

C3_Witness ==
    /\ pc = "done"
    /\ ~dafnyOnPath
    /\ ~dafny_ok
    /\ started = <<"run_dafny", "run_semgrep">>
    /\ SemgrepRan

\* C4: once a check has returned, the artifacts directory exists and the check's
\* artifact holds what this run captured from the tool.
C4_CapturedOutputPersisted ==
    /\ DafnyReturned => artifactsDir /\ dafnyLog.state = "written"
    /\ \A i \in DafnyProcsRun :
          procs[i].cmd.args = <<"verify">> =>
              dafnyLog.stdout = procs[i].stdout /\ dafnyLog.stderr = procs[i].stderr
    /\ (SemgrepLeft /\ SemgrepRan) =>
          /\ artifactsDir
          /\ semgrepJson.state = "written"
          /\ semgrepJson.text = Strip(SemgrepProc.stdout)

\* C5 as claimed: whenever dafny is not on the path, the verifier check fails,
\* the log holds the installation guidance and the gate exits 1.
C5_MissingVerifierAlwaysFails ==
    (DafnyReturned /\ ~dafnyOnPath) =>
        /\ ~dafny_ok
        /\ dafnyLog = GuidanceLog
        /\ pc = "done" => exitCode = 1

\* C5 as amended: when dafny is not on the path and at least one target file is
\* discovered, the verifier check fails, the log holds the installation guidance
\* and the gate exits 1.
C5_MissingVerifierFailsWhenFilesFound ==
    (DafnyReturned /\ ~dafnyOnPath /\ collect_dafny_files(DAFNY_TARGETS) # <<>>) =>
        /\ ~dafny_ok
        /\ dafnyLog = GuidanceLog
        /\ DafnyProcsRun = {}
        /\ Occurrences(err, GUIDANCE_MSG) = 1
        /\ pc = "done" => exitCode = 1

C5_Witness ==
    /\ pc = "done"
    /\ ~dafnyOnPath
    /\ P_a \in files
    /\ dafnyLog = GuidanceLog
    /\ exitCode = 1
    /\ semgrep_ok /\ semgrep_error_count = 0

\* C6: when no target file is discovered the verifier check passes, runs no
\* subprocess, and the log holds the skip note.
C6_NoFilesSkipsVerifier ==
    (DafnyReturned /\ P_check \notin files /\ Rglob(P_dafny) = {}) =>
        /\ dafny_ok
        /\ DafnyProcsRun = {}
        /\ dafnyLog = SkipLog

C6_Witness ==
    /\ pc = "done"
    /\ P_check \notin files /\ Rglob(P_dafny) = {}
    /\ P_dafny \in dirs
    /\ dafnyOnPath
    /\ dafny_ok
    /\ dafnyLog = SkipLog
    /\ procs # <<>>

\* C7: empty or unparseable scanner stdout makes the scanner check fail and
\* the gate exit 1; a scanner that ran and reported no results (an empty result
\* list, or none) gives ok with count 0, and the gate then exits 0 exactly when
\* the verifier passed.
C7_NoOutputIsFailureNotZeroFindings ==
    (SemgrepLeft /\ SemgrepRan) =>
        LET text == Strip(SemgrepProc.stdout)
        IN /\ (text = <<>> \/ ~Decodes(text)) =>
                 /\ pc # "raised"
                 /\ ~semgrep_ok
                 /\ pc = "done" => exitCode = 1
           /\ (text \in {<<ResultsDoc(<<>>)>>, <<JDict(<<>>)>>}) =>
                 /\ pc # "raised"
                 /\ semgrep_ok /\ semgrep_error_count = 0
                 /\ pc = "done" => (exitCode = 0 <=> dafny_ok)

C7_Witness ==
    /\ pc = "done"
    /\ dafny_ok
    /\ SemgrepRan
    /\ SemgrepProc.stdout = <<WS>>
    /\ ~semgrep_ok
    /\ exitCode = 1

(***************************************************************************)
(* _collect_dafny_files applied to target lists (SpecCollect).             *)
(***************************************************************************)
GateIdle ==
    /\ dafnyOnPath = FALSE
    /\ semgrepOnPath = FALSE
    /\ artifactsDir = FALSE
    /\ dafnyLog = AbsentLog
    /\ semgrepJson = AbsentJson
    /\ pc = "idle"
    /\ dafny_ok = FALSE
    /\ semgrep_ok = FALSE
    /\ semgrep_error_count = 0
    /\ overall_ok = TRUE
    /\ exitCode = -1
    /\ out = <<>>
    /\ err = <<>>
    /\ started = <<>>
    /\ procs = <<>>

InitCollect ==
    /\ \E fs \in FileSystems : files = fs[1] /\ dirs = fs[2]
    /\ targets \in SeqsUpTo(CandTargets, MaxTargets)
    /\ collect_pc = "call"
    /\ collect_out = <<>>
    /\ GateIdle /\ CountIdle /\ LookupIdle

\* lines 21-36
CollectCall ==
    /\ collect_pc = "call"
    /\ collect_out' = collect_dafny_files(targets)
    /\ collect_pc' = "returned"
    /\ UNCHANGED <<targets, gateVars, fsVars, countVars, lookupVars>>

NextCollect == CollectCall

SpecCollect == InitCollect /\ [][NextCollect]_vars

\* The targets that resolve to q: q itself when it is a .dfy file, or a
\* directory above an entry q named *.dfy.
ResolvesTo(t, q) ==
    \/ t = q /\ q \in files /\ HasDfySuffix(q)
    \/ t \in dirs /\ q \in files \cup dirs /\ IsPrefix(t, q) /\ HasDfySuffix(q)

FirstTarget(q) == CHOOSE i \in 1..Len(targets) :
    /\ ResolvesTo(targets[i], q)
    /\ \A j \in 1..(i - 1) : ~ResolvesTo(targets[j], q)

\* C9: the result holds every resolved file exactly once, ordered by first
\* occurrence: by the first target that resolves it, and within one directory
\* target by path order; no targets give the empty list.
C9_EachFileOnceInFirstSeenOrder ==
    collect_pc = "returned" =>
        /\ \A i, j \in 1..Len(collect_out) : i # j => collect_out[i] # collect_out[j]
        /\ Range(collect_out) =
              {q \in files \cup dirs : \E i \in 1..Len(targets) : ResolvesTo(targets[i], q)}
        /\ \A i, j \in 1..Len(collect_out) :
              i < j =>
                  LET a == collect_out[i]
                      b == collect_out[j]
                  IN \/ FirstTarget(a) < FirstTarget(b)
                     \/ FirstTarget(a) = FirstTarget(b) /\ PathLess(a, b)
        /\ targets = <<>> => collect_out = <<>>

C9_Witness ==
    /\ collect_pc = "returned"
    /\ targets = <<P_a, P_dafny>>
    /\ files = {P_a, P_b, P_old_a}
    /\ collect_out = <<P_a, P_b, P_old, P_old_a>>

(***************************************************************************)
(* The counting loop applied to lists of result records (SpecCount).       *)
(***************************************************************************)
CountRecords ==
    {RecError, RecErrorLower, RecInfo, RecWarning, RecErrors, RecNoExtra, RecSevNull,
     RecExtraStr}
RareRecords == {RecErrorMixed, RecNoSeverity, RecExtraNull, RecNotDict}

InitCount ==
    /\ count_results \in SeqsUpTo(CountRecords, MaxRecords) \cup SeqsUpTo(RareRecords, 2)
    /\ count_pc = "call"
    /\ count_out = 0
    /\ files = {} /\ dirs = {}
    /\ GateIdle /\ CollectIdle /\ LookupIdle

\* lines 128-133 and the return of line 142
CountCall ==
    /\ count_pc = "call"
    /\ LET a == Analyse(ResultsDoc(count_results))
       IN IF a.raised
          THEN count_pc' = "raised" /\ count_out' = 0
          ELSE count_pc' = "returned" /\ count_out' = a.error_count
    /\ UNCHANGED <<count_results, gateVars, fsVars, collectVars, lookupVars>>

NextCount == CountCall

SpecCount == InitCount /\ [][NextCount]_vars

LowerChar(c) ==
    IF c \in Range(UpperLetters)
    THEN LowerLetters[CHOOSE i \in 1..Len(UpperLetters) : UpperLetters[i] = c]
    ELSE c

HasKey(d, key) == \E i \in 1..Len(d.v) : d.v[i][1] = key

\* The record's extra.severity is a text equal to ERROR up to case.
HasErrorSeverity(r) ==
    /\ HasKey(r, "extra")
    /\ DictGet(r, "extra", JNull).t = "dict"
    /\ HasKey(DictGet(r, "extra", JNull), "severity")
    /\ LET sev == DictGet(DictGet(r, "extra", JNull), "severity", JNull)
       IN /\ sev.t = "str"
          /\ [i \in 1..Len(sev.v) |-> LowerChar(sev.v[i])] = <<"e", "r", "r", "o", "r">>

\* C8: the count returned is the number of records whose extra.severity is
\* ERROR up to case; records with another severity, or none, do not count.
C8_CountIsErrorSeverityRecords ==
    count_pc = "returned" =>
        count_out = Cardinality({i \in 1..Len(count_results) :
                                    HasErrorSeverity(count_results[i])})

C8_Witness ==
    /\ count_pc = "returned"
    /\ count_results = <<RecError, RecErrorLower, RecInfo, RecWarning>>
    /\ count_out = 2

(***************************************************************************)
(* get_user_by_username (good_example.py), under SpecLookup.  A Python     *)
(* value is [t |-> type, v |-> characters].                                *)
(***************************************************************************)
USERNAME_MIN == 3
USERNAME_MAX == 20

\* [a-zA-Z0-9_]
WordChars == Range(LowerLetters) \cup Range(UpperLetters) \cup Range(Digits) \cup {"_"}

Whitespace == {" ", "\t", "\n"}

\* str.strip()
RECURSIVE LStripChars(_)
LStripChars(s) == IF s # <<>> /\ Head(s) \in Whitespace THEN LStripChars(Tail(s)) ELSE s
RECURSIVE RStripChars(_)
RStripChars(s) ==
    IF s # <<>> /\ s[Len(s)] \in Whitespace THEN RStripChars(SubSeq(s, 1, Len(s) - 1)) ELSE s
StripChars(s) == LStripChars(RStripChars(s))

\* USERNAME_RE.fullmatch(s) is not None
FullMatchNoUpperBound(s) ==
    /\ Len(s) >= USERNAME_MIN
    /\ \A i \in 1..Len(s) : s[i] \in WordChars
FullMatch(s) ==
    /\ Len(s) >= USERNAME_MIN
    /\ Len(s) <= USERNAME_MAX
    /\ \A i \in 1..Len(s) : s[i] \in WordChars

\* lines 8-16: [raised, value]
validate_username(username) ==
    IF username.t # "str" THEN [raised |-> "Invalid type", value |-> <<>>]
    ELSE LET stripped == StripChars(username.v)
         IN IF ~FullMatch(stripped)
            THEN [raised |-> "Invalid username format", value |-> <<>>]
            ELSE [raised |-> "", value |-> stripped]

QUERY_TEXT == "SELECT id, username FROM users WHERE username = ?"

Fill(c, n) == [i \in 1..n |-> c]
WithChar(s, pos, c) == [s EXCEPT ![pos] = c]

BOB == <<"b", "o", "b", "_", "4", "2">>
BOB_PADDED == <<" ", " ">> \o BOB \o <<" ", " ">>
BOB_DROP ==
    <<"b", "o", "b", ";", " ", "D", "R", "O", "P", " ", "T", "A", "B", "L", "E", " ",
      "u", "s", "e", "r", "s">>

LookupBodies ==
    {Fill(c, n) : c \in {"a", "Z", "7", "_"}, n \in 0..MaxBodyLen}
    \cup {WithChar(Fill("a", n), pos, c) :
             n \in 2..MaxBodyLen, pos \in {1, 2}, c \in {";", " ", "-", "'"}}
    \cup {WithChar(Fill("a", n), n, c) : n \in 2..MaxBodyLen, c \in {";", " ", "-", "'"}}
    \cup {BOB, BOB_DROP}

LookupPads == {<<>>, <<" ", " ">>, <<"\n", "\t">>}

LookupInputs ==
    {[t |-> "str", v |-> l \o b \o r] : l \in LookupPads, b \in LookupBodies, r \in LookupPads}
    \cup {[t |-> "NoneType", v |-> <<>>], [t |-> "int", v |-> <<"4", "2">>],
          [t |-> "bytes", v |-> BOB]}

InitLookup ==
    /\ lk_input \in LookupInputs
    /\ lk_users \in {{}, {BOB, Fill("a", USERNAME_MIN), Fill("_", USERNAME_MAX)}}
    /\ lk_pc = "call"
    /\ lk_username = <<>>
    /\ lk_cursors = 0
    /\ lk_queries = <<>>
    /\ lk_result = [kind |-> "none", v |-> <<>>]
    /\ files = {} /\ dirs = {}
    /\ GateIdle /\ CollectIdle /\ CountIdle

\* line 23
LkValidate ==
    /\ lk_pc = "call"
    /\ LET r == validate_username(lk_input)
       IN IF r.raised # ""
          THEN /\ lk_pc' = "raised"
               /\ lk_result' = [kind |-> "ValueError", v |-> <<r.raised>>]
               /\ UNCHANGED lk_username
          ELSE /\ lk_pc' = "cursor"
               /\ lk_username' = r.value
               /\ UNCHANGED lk_result
    /\ UNCHANGED <<lk_input, lk_users, lk_cursors, lk_queries>>
    /\ UNCHANGED <<gateVars, fsVars, collectVars, countVars>>

\* line 25
LkCursor ==
    /\ lk_pc = "cursor"
    /\ lk_cursors' = lk_cursors + 1
    /\ lk_pc' = "execute"
    /\ UNCHANGED <<lk_input, lk_users, lk_username, lk_queries, lk_result>>
    /\ UNCHANGED <<gateVars, fsVars, collectVars, countVars>>

\* lines 26-29
LkExecute ==
    /\ lk_pc = "execute"
    /\ lk_queries' = Append(lk_queries, [text |-> QUERY_TEXT, params |-> <<lk_username>>])
    /\ lk_pc' = "fetch"
    /\ UNCHANGED <<lk_input, lk_users, lk_username, lk_cursors, lk_result>>
    /\ UNCHANGED <<gateVars, fsVars, collectVars, countVars>>

\* line 30: the row whose username equals the bound parameter, or None
LkFetch ==
    /\ lk_pc = "fetch"
    /\ lk_result' = LET key == lk_queries[Len(lk_queries)].params[1]
                    IN IF key \in lk_users THEN [kind |-> "row", v |-> key]
                       ELSE [kind |-> "None", v |-> <<>>]
    /\ lk_pc' = "returned"
    /\ UNCHANGED <<lk_input, lk_users, lk_username, lk_cursors, lk_queries>>
    /\ UNCHANGED <<gateVars, fsVars, collectVars, countVars>>

NextLookup == LkValidate \/ LkCursor \/ LkExecute \/ LkFetch

SpecLookup == InitLookup /\ [][NextLookup]_vars

\* The text without its leading and trailing whitespace: from the first to the
\* last character that is no whitespace.
Trimmed(s) ==
    LET solid == {i \in 1..Len(s) : s[i] \notin {" ", "\t", "\n"}}
    IN IF solid = {} THEN <<>>
       ELSE SubSeq(s, CHOOSE i \in solid : \A j \in solid : i <= j,
                      CHOOSE i \in solid : \A j \in solid : i >= j)

IsLetterDigitUnderscore(c) ==
    c \in {"a", "b", "c", "d", "e", "f", "g", "h", "i", "j", "k", "l", "m", "n", "o", "p",
           "q", "r", "s", "t", "u", "v", "w", "x", "y", "z",
           "A", "B", "C", "D", "E", "F", "G", "H", "I", "J", "K", "L", "M", "N", "O", "P",
           "Q", "R", "S", "T", "U", "V", "W", "X", "Y", "Z",
           "0", "1", "2", "3", "4", "5", "6", "7", "8", "9", "_"}

ValidIdentifier(x) ==
    /\ x.t = "str"
    /\ Len(Trimmed(x.v)) \in 3..20
    /\ \A i \in 1..Len(Trimmed(x.v)) : IsLetterDigitUnderscore(Trimmed(x.v)[i])

\* C10: no cursor is created and no query executed unless the input is a text
\* whose trimmed value is 3 to 20 letters, digits or underscores; any other
\* input raises the invalid-input error first; an executed query is the fixed
\* text with exactly the trimmed identifier as its bound parameter.
C10_NoDataAccessBeforeValidation ==
    /\ (lk_cursors > 0 \/ lk_queries # <<>>) => ValidIdentifier(lk_input)
    /\ (lk_pc \notin {"idle", "call"} /\ ~ValidIdentifier(lk_input)) =>
          /\ lk_pc = "raised"
          /\ lk_result.kind = "ValueError"
          /\ lk_cursors = 0
          /\ lk_queries = <<>>
    /\ \A i \in 1..Len(lk_queries) :
          /\ lk_queries[i].text = QUERY_TEXT
          /\ lk_queries[i].params = <<Trimmed(lk_input.v)>>
    /\ Len(lk_queries) <= 1

C10_Witness ==
    /\ lk_pc = "returned"
    /\ lk_input = [t |-> "str", v |-> BOB_PADDED]
    /\ lk_queries = <<[text |-> QUERY_TEXT, params |-> <<BOB>>]>>
    /\ lk_result = [kind |-> "row", v |-> BOB]

====
